---- MODULE Spec2Model ----
(***************************************************************************)
(* A model of the OpenCode skills plugin (src/index.ts): discovery of      *)
(* SKILL.md files under a list of base paths, frontmatter validation, tool *)
(* name generation, tool registration and the rendering of a tool call.    *)
(*                                                                         *)
(* Strings are sequences of one-character strings, so that the string      *)
(* operations of the code (split, join, replace, replaceAll, trim,         *)
(* dirname, basename, relative) are computed and not assumed.              *)
(***************************************************************************)
EXTENDS Integers, Sequences, FiniteSets, TLC

VARIABLES
    gtnIn,      \* generateToolName: the base path and the two directory chains drawn
    gtnOut,     \* generateToolName: the tool name returned for each chain, or NoName
    data,       \* schema validation: the frontmatter data handed to the schema
    verdict,    \* schema validation: the outcome of SkillFrontmatterSchema.parse
    psIn,       \* parseSkill: the file, its path and the base path drawn
    psOut,      \* parseSkill: what the call did (returned a Skill, null, or threw)
    rdIn,       \* rendering: the Skill and the resource paths drawn
    rdOut,      \* rendering: the prompt execute returns for them
    fs,         \* the file system: the file at each path, or NoFile
    rootDirs,   \* the base paths that exist as directories
    pc,         \* the plugin: "discover", "register", "ready" or "failed"
    rootIdx,    \* discoverSkills: the index of the base path being scanned
    scan,       \* discoverSkills: the scan in progress and what it has left to yield
    scanLog,    \* the paths the discovery scans have yielded, in order
    skills,     \* discoverSkills: the Skills collected so far
    warnings,   \* the duplicate lists passed to console.warn
    regIdx,     \* SkillsPlugin: the index of the next Skill to register
    tools,      \* SkillsPlugin: the tool registered under each tool name
    calls,      \* the execute calls in flight
    fsChanges   \* the number of file system changes made since startup

gtnVars == <<gtnIn, gtnOut>>
schemaVars == <<data, verdict>>
parseVars == <<psIn, psOut>>
renderVars == <<rdIn, rdOut>>
pureVars == <<gtnIn, gtnOut, data, verdict, psIn, psOut, rdIn, rdOut>>
fsVars == <<fs, rootDirs, fsChanges>>
discoveryVars == <<rootIdx, scan, scanLog, skills, warnings>>
pluginVars == <<fs, rootDirs, fsChanges, pc, rootIdx, scan, scanLog, skills,
                warnings, regIdx, tools, calls>>
vars == <<gtnIn, gtnOut, data, verdict, psIn, psOut, rdIn, rdOut,
          fs, rootDirs, fsChanges, pc, rootIdx, scan, scanLog, skills,
          warnings, regIdx, tools, calls>>

(***************************************************************************)
(* Bounds of the model.                                                    *)
(***************************************************************************)
\* Longest directory chain below a base path drawn for generateToolName.
MaxDepth == 2
\* Longest body drawn freely from BodyChars for the rendering.
MaxBodyLen == 2
\* Longest list of resource paths drawn for the rendering.
MaxPaths == 2
\* The number of file system changes made after startup.
MaxFsChanges == 1

(***************************************************************************)
(* String primitives (JavaScript String and node:path, POSIX flavour).     *)
(***************************************************************************)
\* path.sep on POSIX.
sep == "/"

RECURSIVE Concat(_)
\* The concatenation of a sequence of strings.
Concat(ss) ==
    IF ss = <<>> THEN <<>> ELSE Head(ss) \o Concat(Tail(ss))

\* Whether string pat occurs in s at position i (1-based).
MatchAt(s, pat, i) ==
    /\ i >= 1
    /\ i + Len(pat) - 1 <= Len(s)
    /\ \A k \in 1..Len(pat) : s[i + k - 1] = pat[k]

\* s.startsWith(pat)
StartsWith(s, pat) == MatchAt(s, pat, 1)

\* Whether pat occurs somewhere in s: s.includes(pat)
Includes(s, pat) == \E i \in 1..(Len(s) + 1) : MatchAt(s, pat, i)

RECURSIVE SplitFrom(_, _, _)
\* The pieces of s between occurrences of the character c, the piece in
\* progress being cur.
SplitFrom(s, c, cur) ==
    IF s = <<>> THEN <<cur>>
    ELSE IF Head(s) = c THEN <<cur>> \o SplitFrom(Tail(s), c, <<>>)
    ELSE SplitFrom(Tail(s), c, Append(cur, Head(s)))

\* s.split(c) for a one-character separator: "" splits into [""].
Split(s, c) == SplitFrom(s, c, <<>>)

RECURSIVE Join(_, _)
\* parts.join(glue)
Join(parts, glue) ==
    IF parts = <<>> THEN <<>>
    ELSE IF Len(parts) = 1 THEN parts[1]
    ELSE parts[1] \o glue \o Join(Tail(parts), glue)

\* s.replace(/c/g, d) for single characters c and d.
ReplaceGlobal(s, c, d) == [i \in 1..Len(s) |-> IF s[i] = c THEN d ELSE s[i]]

\* s.replace(c, d) with a string pattern: the first occurrence only.
ReplaceFirst(s, c, d) ==
    [i \in 1..Len(s) |->
        IF s[i] = c /\ \A j \in 1..(i - 1) : s[j] # c THEN d ELSE s[i]]

\* The index of the last separator of p, 0 when there is none.
LastSep(p) ==
    IF \E i \in 1..Len(p) : p[i] = sep
    THEN CHOOSE i \in 1..Len(p) : p[i] = sep /\ \A j \in (i + 1)..Len(p) : p[j] # sep
    ELSE 0

\* path.dirname of a normalized path without a trailing separator.
dirname(p) ==
    LET i == LastSep(p)
    IN  IF i = 0 THEN <<".">>
        ELSE IF i = 1 THEN <<sep>>
        ELSE SubSeq(p, 1, i - 1)

\* path.basename of a normalized path without a trailing separator.
basename(p) == SubSeq(p, LastSep(p) + 1, Len(p))

\* The number of leading components two component lists share.
RECURSIVE CommonPrefix(_, _)
CommonPrefix(a, b) ==
    IF a = <<>> \/ b = <<>> \/ Head(a) # Head(b) THEN 0
    ELSE 1 + CommonPrefix(Tail(a), Tail(b))

\* path.relative(from, to) for normalized absolute paths: one ".." for each
\* component of from outside the common prefix, then the rest of to.
relative(from, to) ==
    LET f == Tail(Split(from, sep))
        t == Tail(Split(to, sep))
        n == CommonPrefix(f, t)
        ups == [i \in 1..(Len(f) - n) |-> <<".", ".">>]
    IN  Join(ups \o SubSeq(t, n + 1, Len(t)), <<sep>>)

\* path.join(dir, name) for a normalized dir and a relative name.
join(dir, name) == dir \o <<sep>> \o name

(***************************************************************************)
(* generateToolName                                                        *)
(***************************************************************************)
\* The literal prefix of every tool name.
SkillsPrefix == <<"s", "k", "i", "l", "l", "s", "_">>

\* The file name the discovery glob looks for.
SKILL_MD == <<"S", "K", "I", "L", "L", ".", "m", "d">>

\* A generateToolName that forgets the g flag: only the first hyphen goes.
generateToolNameFirstHyphen(skillPath, baseDir) ==
    LET rel == relative(baseDir, skillPath)
        dirPath == dirname(rel)
        components == SelectSeq(Split(dirPath, sep), LAMBDA c : c # <<".">>)
    IN  SkillsPrefix \o ReplaceFirst(Join(components, <<"_">>), "-", "_")

\* A generateToolName that names a skill after its own directory only.
generateToolNameLeafOnly(skillPath, baseDir) ==
    SkillsPrefix \o ReplaceGlobal(basename(dirname(skillPath)), "-", "_")

generateToolName(skillPath, baseDir) ==
    LET rel == relative(baseDir, skillPath)
        dirPath == dirname(rel)
        components == SelectSeq(Split(dirPath, sep), LAMBDA c : c # <<".">>)
    IN  SkillsPrefix \o ReplaceGlobal(Join(components, <<"_">>), "-", "_")

(***************************************************************************)
(* JavaScript values, as YAML decoding produces them.  An object carries   *)
(* the values of its keys (its keys are strings in any case).              *)
(***************************************************************************)
Undefined == [kind |-> "undefined", chars |-> <<>>, items |-> <<>>]
Null == [kind |-> "null", chars |-> <<>>, items |-> <<>>]
Number == [kind |-> "number", chars |-> <<>>, items |-> <<>>]
Str(s) == [kind |-> "string", chars |-> s, items |-> <<>>]
Array(xs) == [kind |-> "array", chars |-> <<>>, items |-> xs]
Object(xs) == [kind |-> "object", chars |-> <<>>, items |-> xs]

(***************************************************************************)
(* SkillFrontmatterSchema                                                  *)
(***************************************************************************)
\* description: z.string().min(20, ...)
MinDescriptionLength == 20

\* The characters of the class [a-z0-9-], as far as the model draws them.
NameChars == {"a", "b", "c", "p", "h", "0", "1", "-"}

\* /^[a-z0-9-]+$/ (no m flag: $ is the end of the input).
MatchesNameRegex(s) == Len(s) >= 1 /\ \A i \in 1..Len(s) : s[i] \in NameChars

\* name: z.string().regex(...).min(1, ...)
NameField(v) == v.kind = "string" /\ MatchesNameRegex(v.chars) /\ Len(v.chars) >= 1

\* A description check that is off by one: more than 20 characters.
DescriptionFieldStrict(v) == v.kind = "string" /\ Len(v.chars) > MinDescriptionLength

\* description: z.string().min(20, ...)
DescriptionField(v) == v.kind = "string" /\ Len(v.chars) >= MinDescriptionLength

\* license: z.string().optional()
LicenseField(v) == v.kind = "undefined" \/ v.kind = "string"

\* "allowed-tools": z.array(z.string()).optional()
AllowedToolsField(v) ==
    \/ v.kind = "undefined"
    \/ v.kind = "array" /\ \A i \in 1..Len(v.items) : v.items[i].kind = "string"

\* metadata: z.record(z.string()).optional()
MetadataField(v) ==
    \/ v.kind = "undefined"
    \/ v.kind = "object" /\ \A i \in 1..Len(v.items) : v.items[i].kind = "string"

\* The fields of the header that fail the schema (the paths of the ZodError's issues).
SchemaIssues(d) ==
    {f \in {"name", "description", "license", "allowed-tools", "metadata"} :
        ~ CASE f = "name" -> NameField(d.name)
            [] f = "description" -> DescriptionField(d.description)
            [] f = "license" -> LicenseField(d.license)
            [] f = "allowed-tools" -> AllowedToolsField(d.allowedTools)
            [] f = "metadata" -> MetadataField(d.metadata)}

\* SkillFrontmatterSchema.parse(data): the recognized fields on success (z.object
\* strips unknown keys), a ZodError with its issues otherwise.
SchemaParse(d) ==
    LET issues == SchemaIssues(d)
    IN  IF issues = {}
        THEN [ok |-> TRUE, issues |-> {},
              value |-> [name |-> d.name, description |-> d.description,
                         license |-> d.license, allowedTools |-> d.allowedTools,
                         metadata |-> d.metadata]]
        ELSE [ok |-> FALSE, issues |-> issues, value |-> Undefined]

(***************************************************************************)
(* parseSkill                                                              *)
(*                                                                         *)
(* A file is what reading and splitting it yields: whether                 *)
(* Bun.file(path).text() succeeds (readable), whether matter(content)      *)
(* succeeds (wellFormed), and the data and content matter returns.         *)
(***************************************************************************)
\* What String.prototype.trim removes, as far as the model draws it.
WhiteSpace == {" ", "\t", "\n", "\r"}

RECURSIVE TrimStart(_)
TrimStart(s) ==
    IF s # <<>> /\ Head(s) \in WhiteSpace THEN TrimStart(Tail(s)) ELSE s

RECURSIVE TrimEnd(_)
TrimEnd(s) ==
    IF s # <<>> /\ s[Len(s)] \in WhiteSpace
    THEN TrimEnd(SubSeq(s, 1, Len(s) - 1)) ELSE s

\* s.trim()
Trim(s) == TrimEnd(TrimStart(s))

\* parseSkill returns null.
NoSkill == <<>>

\* The outcome of a call: the value returned, or an exception that escaped.
Returned(v) == [threw |-> FALSE, skill |-> v]
Threw == [threw |-> TRUE, skill |-> NoSkill]

\* The try block of parseSkill (lines 79-124).
ParseSkillBody(file, skillPath, baseDir) ==
    IF ~file.readable THEN Threw
    ELSE IF ~file.wellFormed THEN Threw
    ELSE LET parsed == SchemaParse(file.data)
             frontmatter == parsed.value
             skillDir == basename(dirname(skillPath))
         IN  IF ~parsed.ok THEN Returned(NoSkill)
             ELSE IF frontmatter.name.chars # skillDir THEN Returned(NoSkill)
             ELSE Returned(
                    [name |-> frontmatter.name.chars,
                     fullPath |-> dirname(skillPath),
                     toolName |-> generateToolName(skillPath, baseDir),
                     description |-> frontmatter.description.chars,
                     allowedTools |-> frontmatter.allowedTools,
                     metadata |-> frontmatter.metadata,
                     license |-> frontmatter.license,
                     content |-> Trim(file.content),
                     path |-> skillPath])

\* A parseSkill without its outer catch: a failed read or split escapes.
parseSkillNoCatch(file, skillPath, baseDir) ==
    ParseSkillBody(file, skillPath, baseDir)

\* parseSkill: the try block, and the catch that logs and returns null.
parseSkill(file, skillPath, baseDir) ==
    LET r == ParseSkillBody(file, skillPath, baseDir)
    IN  IF r.threw THEN Returned(NoSkill) ELSE r

(***************************************************************************)
(* The prompt templates and String.prototype.replaceAll                    *)
(***************************************************************************)
SKILL_PROMPT ==
    <<"<", "s", "k", "i", "l", "l", " ", "n", "a", "m", "e", "=",
      "\"", "%", "{", "n", "a", "m", "e", "}", "\"", ">", "\n",
      "\n", "%", "{", "c", "o", "n", "t", "e", "n", "t", "}", "\n",
      "\n", "<", "/", "s", "k", "i", "l", "l", ">">>

RESOURCES_PROMPT ==
    <<"<", "s", "k", "i", "l", "l", "_", "r", "e", "s", "o", "u",
      "r", "c", "e", "s", ">", "\n", "I", "M", "P", "O", "R", "T",
      "A", "N", "T", ":", " ", "T", "h", "e", " ", "s", "k", "i",
      "l", "l", " ", "%", "{", "n", "a", "m", "e", "}", " ", "m",
      "a", "y", " ", "r", "e", "f", "e", "r", "e", "n", "c", "e",
      " ", "c", "e", "r", "t", "a", "i", "n", " ", "r", "e", "s",
      "o", "u", "r", "c", "e", " ", "f", "i", "l", "e", "s", ".",
      " ", "U", "s", "e", " ", "t", "h", "e", "i", "r", " ", "f",
      "u", "l", "l", " ", "p", "a", "t", "h", "s", ":", "\n", "\n",
      "%", "{", "p", "a", "t", "h", "s", "}", "\n", "<", "/", "s",
      "k", "i", "l", "l", "_", "r", "e", "s", "o", "u", "r", "c",
      "e", "s", ">">>

NamePlaceholder == <<"%", "{", "n", "a", "m", "e", "}">>
FullPathPlaceholder == <<"%", "{", "f", "u", "l", "l", "P", "a", "t", "h", "}">>
ContentPlaceholder == <<"%", "{", "c", "o", "n", "t", "e", "n", "t", "}">>
PathsPlaceholder == <<"%", "{", "p", "a", "t", "h", "s", "}">>

\* The grave accent character (the lexer takes none inside a string).
Grave == "grave"

RECURSIVE GetSubstitution(_, _, _, _)
\* ECMAScript GetSubstitution for a string pattern (no captures): in the
\* replacement, $$ stands for a dollar sign, $& for the matched text, $ and a
\* grave accent for the text before the match and $' for the text after it;
\* any other dollar sign stands for itself.
GetSubstitution(matched, before, after, replacement) ==
    LET dollars == {i \in 1..Len(replacement) : replacement[i] = "$"}
    IN  IF dollars = {} THEN replacement
        ELSE LET i == CHOOSE d \in dollars : \A e \in dollars : d <= e
                 plain == SubSeq(replacement, 1, i - 1)
             IN  IF i < Len(replacement)
                      /\ replacement[i + 1] \in {"$", "&", Grave, "'"}
                 THEN plain
                      \o (CASE replacement[i + 1] = "$" -> <<"$">>
                            [] replacement[i + 1] = "&" -> matched
                            [] replacement[i + 1] = Grave -> before
                            [] replacement[i + 1] = "'" -> after)
                      \o GetSubstitution(matched, before, after,
                             SubSeq(replacement, i + 2, Len(replacement)))
                 ELSE plain \o <<"$">>
                      \o GetSubstitution(matched, before, after,
                             SubSeq(replacement, i + 1, Len(replacement)))

RECURSIVE ReplaceAllFrom(_, _, _, _)
\* The rest of str from position i on, with every occurrence of the
\* non-empty searchValue replaced: the occurrences are taken from the left
\* and do not overlap.
ReplaceAllFrom(str, searchValue, replaceValue, i) ==
    LET found == {j \in i..Len(str) : MatchAt(str, searchValue, j)}
    IN  IF found = {} THEN SubSeq(str, i, Len(str))
        ELSE LET j == CHOOSE m \in found : \A n \in found : m <= n
             IN  SubSeq(str, i, j - 1)
                 \o GetSubstitution(searchValue, SubSeq(str, 1, j - 1),
                        SubSeq(str, j + Len(searchValue), Len(str)), replaceValue)
                 \o ReplaceAllFrom(str, searchValue, replaceValue,
                        j + Len(searchValue))

\* str.replaceAll(searchValue, replaceValue), both strings.
replaceAll(str, searchValue, replaceValue) ==
    ReplaceAllFrom(str, searchValue, replaceValue, 1)

(***************************************************************************)
(* execute: the rendering of a tool call                                   *)
(***************************************************************************)
\* Lines 204-206: the skill block.
RenderSkill(skill) ==
    replaceAll(
        replaceAll(
            replaceAll(SKILL_PROMPT, NamePlaceholder, skill.name),
            FullPathPlaceholder, skill.fullPath),
        ContentPlaceholder, skill.content)

\* Lines 220-227: the resources block, appended when there are resources.
AppendResources(prompt, skill, resourcePaths) ==
    IF Len(resourcePaths) > 0
    THEN prompt \o <<"\n", "\n">> \o
         replaceAll(
             replaceAll(RESOURCES_PROMPT, NamePlaceholder, skill.name),
             PathsPlaceholder, Join(resourcePaths, <<"\n">>))
    ELSE prompt

(***************************************************************************)
(* The file system and Bun's Glob                                          *)
(***************************************************************************)
\* No file at a path.
NoFile == <<>>

\* Whether path p lies below the directory dir.
IsUnder(p, dir) == StartsWith(p, dir \o <<sep>>)

\* Whether a relative path has a component that begins with a period.
HasDotComponent(rel) ==
    \E i \in 1..Len(rel) : rel[i] = "." /\ (i = 1 \/ rel[i - 1] = sep)

\* new Glob("**/" + name).scan({cwd, absolute: true}), name "*" or a file
\* name: the files below cwd at any depth that the pattern matches, as
\* absolute paths.  The scan is made with Bun's defaults (onlyFiles: true,
\* dot: false): an entry that begins with a period is not matched and a
\* directory that begins with a period is not entered.
GlobScan(files, cwd, name) ==
    {p \in DOMAIN files :
        /\ files[p] # NoFile
        /\ IsUnder(p, cwd)
        /\ ~HasDotComponent(relative(cwd, p))
        /\ name # <<"*">> => basename(p) = name}

\* The orders in which a scan may yield the set S of matches.
RECURSIVE Orders(_)
Orders(S) ==
    IF S = {} THEN { <<>> }
    ELSE UNION { { <<x>> \o o : o \in Orders(S \ {x}) } : x \in S }

(***************************************************************************)
(* discoverSkills                                                          *)
(***************************************************************************)
\* The base paths SkillsPlugin passes: the project's .opencode/skills, the
\* home directory's, and the configuration directory's.
BasePaths == << <<"/", "p">>, <<"/", "h">>, <<"/", "c">> >>

\* A push that skips a Skill whose tool name is already in the list.
PushUnique(list, skill) ==
    IF \E i \in 1..Len(list) : list[i].toolName = skill.toolName
    THEN list ELSE Append(list, skill)

\* skills.push(skill)
Push(list, skill) == Append(list, skill)

\* A scan without its catch: the exception ends discoverSkills.
OnScanErrorAbort(idx) == [pc |-> "failed", rootIdx |-> idx]

\* The catch of the scan of one base path: on to the next base path.
OnScanError(idx) == [pc |-> "discover", rootIdx |-> idx + 1]

\* No scan is open.
NoScan == [open |-> FALSE, pending |-> {}]

\* glob.scan on a base path that does not exist throws; the catch moves on.
ScanFails ==
    /\ pc = "discover" /\ rootIdx <= Len(BasePaths) /\ ~scan.open
    /\ BasePaths[rootIdx] \notin rootDirs
    /\ pc' = OnScanError(rootIdx).pc
    /\ rootIdx' = OnScanError(rootIdx).rootIdx
    /\ UNCHANGED <<pureVars, fsVars, scan, scanLog, skills, warnings, regIdx, tools, calls>>

\* glob.scan opens on a base path that exists.
ScanOpen ==
    /\ pc = "discover" /\ rootIdx <= Len(BasePaths) /\ ~scan.open
    /\ BasePaths[rootIdx] \in rootDirs
    /\ scan' = [open |-> TRUE,
                pending |-> GlobScan(fs, BasePaths[rootIdx], SKILL_MD)]
    /\ UNCHANGED <<pureVars, fsVars, pc, rootIdx, scanLog, skills, warnings, regIdx, tools,
                   calls>>

\* The scan yields a match (in any order); parseSkill is called on it and a
\* Skill is pushed.  An exception out of parseSkill would end the scan of
\* this base path in the catch.
ScanMatch ==
    /\ pc = "discover" /\ scan.open
    /\ \E match \in scan.pending :
        LET r == parseSkill(fs[match], match, BasePaths[rootIdx])
        IN  /\ scanLog' = Append(scanLog, match)
            /\ IF r.threw
               THEN /\ scan' = NoScan
                    /\ pc' = OnScanError(rootIdx).pc
                    /\ rootIdx' = OnScanError(rootIdx).rootIdx
                    /\ UNCHANGED skills
               ELSE /\ scan' = [scan EXCEPT !.pending = @ \ {match}]
                    /\ skills' = IF r.skill # NoSkill
                                 THEN Push(skills, r.skill) ELSE skills
                    /\ UNCHANGED <<pc, rootIdx>>
    /\ UNCHANGED <<pureVars, fsVars, warnings, regIdx, tools, calls>>

\* The scan of a base path ends: the next base path.
ScanEnd ==
    /\ pc = "discover" /\ scan.open /\ scan.pending = {}
    /\ scan' = NoScan
    /\ rootIdx' = rootIdx + 1
    /\ UNCHANGED <<pureVars, fsVars, pc, scanLog, skills, warnings, regIdx, tools, calls>>

\* Lines 165-173: the tool name of every Skill that follows another Skill
\* of the same tool name, one entry for each such Skill.
Duplicates(list) ==
    LET dup == {i \in 1..Len(list) :
                   \E j \in 1..(i - 1) : list[j].toolName = list[i].toolName}
    IN  [k \in 1..Cardinality(dup) |->
            list[CHOOSE i \in dup : Cardinality({j \in dup : j <= i}) = k].toolName]

\* Lines 164-179: after the last base path, the duplicates are logged, if
\* any, and discoverSkills returns.
DetectDuplicates ==
    /\ pc = "discover" /\ rootIdx > Len(BasePaths)
    /\ warnings' = IF Len(Duplicates(skills)) > 0
                   THEN Append(warnings, Duplicates(skills)) ELSE warnings
    /\ pc' = "register"
    /\ UNCHANGED <<pureVars, fsVars, rootIdx, scan, scanLog, skills, regIdx, tools, calls>>

(***************************************************************************)
(* SkillsPlugin: the registration of a tool for each Skill                 *)
(***************************************************************************)
\* An assignment that keeps the tool a tool name already has.
AssignFirstWins(map, skill) ==
    [n \in DOMAIN map \cup {skill.toolName} |->
        IF n \in DOMAIN map
        THEN map[n]
        ELSE [description |-> skill.description, skill |-> skill]]

\* tools[skill.toolName] = tool({description, args, execute})
Assign(map, skill) ==
    [n \in DOMAIN map \cup {skill.toolName} |->
        IF n = skill.toolName
        THEN [description |-> skill.description, skill |-> skill]
        ELSE map[n]]

\* One turn of the loop over the Skills.
Register ==
    /\ pc = "register" /\ regIdx <= Len(skills)
    /\ tools' = Assign(tools, skills[regIdx])
    /\ regIdx' = regIdx + 1
    /\ UNCHANGED <<pureVars, fsVars, pc, discoveryVars, calls>>

\* return { tool: tools }
Registered ==
    /\ pc = "register" /\ regIdx > Len(skills)
    /\ pc' = "ready"
    /\ UNCHANGED <<pureVars, fsVars, discoveryVars, regIdx, tools, calls>>

(***************************************************************************)
(* execute: a tool call                                                    *)
(***************************************************************************)
\* The execute calls that may be in flight.
CallIds == {1, 2}

\* No call in flight.
NoCall == [pc |-> "idle", tool |-> <<>>, prompt |-> <<>>, resourcePaths |-> <<>>]

\* An execute that reads SKILL.md again and renders what it holds now.
SkillOfReloaded(t) ==
    LET old == tools[t].skill
        r == IF fs[old.path] = NoFile THEN Returned(NoSkill)
             ELSE parseSkill(fs[old.path], old.path,
                             BasePaths[CHOOSE i \in 1..Len(BasePaths) :
                                           StartsWith(old.path, BasePaths[i])])
    IN  IF r.skill # NoSkill THEN r.skill ELSE old

\* The Skill the execute closure of a tool reads: the one captured when the
\* tool was registered.
SkillOf(t) == tools[t].skill

\* The directory the resource scan is made in.
ResourceCwd(skill) == skill.fullPath

\* A collection that leaves out the Skill's own SKILL.md only.
CollectResourcesByPath(matches, skill) ==
    SelectSeq(matches, LAMBDA match : match # skill.path)

\* Lines 211-218: the matches in the order yielded, without those whose
\* file name is SKILL.md.
CollectResources(matches, skill) ==
    SelectSeq(matches, LAMBDA match : basename(match) # SKILL_MD)

\* Lines 203-206: the host calls the tool t; the skill block is rendered.
CallStart(c, t) ==
    /\ pc = "ready" /\ calls[c].pc = "idle"
    /\ calls' = [calls EXCEPT ![c] =
            [pc |-> "scan", tool |-> t, prompt |-> RenderSkill(SkillOf(t)),
             resourcePaths |-> <<>>]]
    /\ UNCHANGED <<pureVars, fsVars, pc, discoveryVars, regIdx, tools>>

\* A scan that collects into one resourcePaths array declared outside
\* execute, which every call in flight then holds.
CallScanShared(c) ==
    /\ pc = "ready" /\ calls[c].pc = "scan"
    /\ LET skill == SkillOf(calls[c].tool)
       IN  \E matches \in Orders(GlobScan(fs, ResourceCwd(skill), <<"*">>)) :
               calls' = [d \in CallIds |->
                   IF d = c
                   THEN [calls[d] EXCEPT !.pc = "append",
                            !.resourcePaths = CollectResources(matches, skill)]
                   ELSE IF calls[d].pc = "idle" THEN calls[d]
                   ELSE [calls[d] EXCEPT
                            !.resourcePaths = CollectResources(matches, skill)]]
    /\ UNCHANGED <<pureVars, fsVars, pc, discoveryVars, regIdx, tools>>

\* Lines 208-218: the files below the Skill's directory are scanned (in any
\* order) and collected.
CallScan(c) ==
    /\ pc = "ready" /\ calls[c].pc = "scan"
    /\ LET skill == SkillOf(calls[c].tool)
       IN  \E matches \in Orders(GlobScan(fs, ResourceCwd(skill), <<"*">>)) :
               calls' = [calls EXCEPT ![c].pc = "append",
                    ![c].resourcePaths = CollectResources(matches, skill)]
    /\ UNCHANGED <<pureVars, fsVars, pc, discoveryVars, regIdx, tools>>

\* Lines 220-229: the resources block is appended and the prompt returned.
CallReturn(c) ==
    /\ pc = "ready" /\ calls[c].pc = "append"
    /\ calls' = [calls EXCEPT ![c].pc = "done",
            ![c].prompt = AppendResources(calls[c].prompt, SkillOf(calls[c].tool),
                                          calls[c].resourcePaths)]
    /\ UNCHANGED <<pureVars, fsVars, pc, discoveryVars, regIdx, tools>>

\* The host has taken the prompt.
CallEnd(c) ==
    /\ pc = "ready" /\ calls[c].pc = "done"
    /\ calls' = [calls EXCEPT ![c] = NoCall]
    /\ UNCHANGED <<pureVars, fsVars, pc, discoveryVars, regIdx, tools>>

(***************************************************************************)
(* Specification SpecName: generateToolName applied to drawn paths.        *)
(***************************************************************************)
\* Directory names a chain is drawn from: with hyphens, with underscores, and
\* names that are hyphens only.
SegNames ==
    { <<"a">>, <<"b">>, <<"a", "-", "b">>, <<"a", "_", "b">>, <<"-">> }

\* The base paths generateToolName is tried under (one holds a hyphen).
BaseDirs == { <<"/", "r">>, <<"/", "r", "/", "s", "-", "t">> }

RECURSIVE ChainsUpTo(_)
\* The directory chains of at most n names.
ChainsUpTo(n) ==
    IF n = 0 THEN { <<>> }
    ELSE LET shorter == ChainsUpTo(n - 1)
         IN  shorter \cup { Append(c, d) : c \in shorter, d \in SegNames }

Chains == ChainsUpTo(MaxDepth)

\* The absolute path of the SKILL.md file in the directory base/chain.
SkillPathOf(base, chain) == Join(<<base>> \o chain \o <<SKILL_MD>>, <<sep>>)

\* No tool name yet (every tool name starts with SkillsPrefix).
NoName == <<>>

\* generateToolName is not under study.
NameIdle == gtnIn = <<>> /\ gtnOut = <<>>

NameInit ==
    /\ gtnIn \in [baseDir : BaseDirs, chain : [1..2 -> Chains]]
    /\ gtnOut = [i \in 1..2 |-> NoName]

\* One call generateToolName(skillPath, baseDir).
Generate(i) ==
    /\ gtnOut[i] = NoName
    /\ gtnOut' = [gtnOut EXCEPT ![i] =
            generateToolName(SkillPathOf(gtnIn.baseDir, gtnIn.chain[i]), gtnIn.baseDir)]
    /\ UNCHANGED gtnIn


\* The derivation the claim describes, from the directory chain itself.
RefToolName(chain) ==
    SkillsPrefix \o
        Join([k \in 1..Len(chain) |-> ReplaceGlobal(chain[k], "-", "_")], <<"_">>)

\* C1: every generated tool name equals the reference derivation of its
\* directory chain (hyphens replaced in each name, names joined by "_",
\* "skills_" in front), holds no hyphen and no path separator, and is
\* exactly "skills_" for a SKILL.md placed directly in the base path.
C1_ToolNameIsReference ==
    \A i \in 1..2 :
        gtnOut[i] # NoName =>
            /\ gtnOut[i] = RefToolName(gtnIn.chain[i])
            /\ \A k \in 1..Len(gtnOut[i]) : gtnOut[i][k] \notin {"-", sep}
            /\ (gtnIn.chain[i] = <<>> => gtnOut[i] = SkillsPrefix)

\* C1 witness: a name was generated for a nested chain with several hyphens,
\* and one for a SKILL.md directly in the base path.
C1_Witness ==
    \E i, j \in 1..2 :
        /\ gtnOut[i] # NoName /\ gtnOut[j] # NoName
        /\ Len(gtnIn.chain[i]) = 2
        /\ Cardinality({ <<m, k>> \in (1..2) \X (1..3) :
                k <= Len(gtnIn.chain[i][m]) /\ gtnIn.chain[i][m][k] = "-" }) >= 2
        /\ gtnIn.chain[j] = <<>>

\* The relative directory path of a chain, as the file system spells it.
RelDir(chain) == Join(chain, <<sep>>)

\* C9 as claimed: two distinct chains get the same tool name only if they
\* have the same number of names and are equal name by name once hyphens
\* are replaced by underscores.
C9_SameNameOnlySegmentwise ==
    (gtnOut[1] # NoName /\ gtnOut[2] # NoName /\ gtnIn.chain[1] # gtnIn.chain[2]
        /\ gtnOut[1] = gtnOut[2]) =>
            /\ Len(gtnIn.chain[1]) = Len(gtnIn.chain[2])
            /\ \A k \in 1..Len(gtnIn.chain[1]) :
                   ReplaceGlobal(gtnIn.chain[1][k], "-", "_")
                       = ReplaceGlobal(gtnIn.chain[2][k], "-", "_")

\* C9 amended: two distinct chains get the same tool name only if their
\* relative directory paths are equal once every hyphen and every path
\* separator is replaced by an underscore.
C9_SameNameOnlyFlattened ==
    (gtnOut[1] # NoName /\ gtnOut[2] # NoName /\ gtnIn.chain[1] # gtnIn.chain[2]
        /\ gtnOut[1] = gtnOut[2]) =>
            ReplaceGlobal(ReplaceGlobal(RelDir(gtnIn.chain[1]), sep, "_"), "-", "_")
                = ReplaceGlobal(ReplaceGlobal(RelDir(gtnIn.chain[2]), sep, "_"), "-", "_")

\* C9 witness: the chains a/b and a-b, split differently, got the same name.
C9_Witness ==
    /\ gtnIn.chain[1] = << <<"a">>, <<"b">> >>
    /\ gtnIn.chain[2] = << <<"a", "-", "b">> >>
    /\ gtnOut[1] # NoName
    /\ gtnOut[1] = gtnOut[2]

(***************************************************************************)
(* Specification SpecSchema: the schema applied to drawn headers.          *)
(***************************************************************************)
\* A string of n characters c.
Rep(c, n) == [i \in 1..n |-> c]

NameValues ==
    { Undefined, Number, Str(<<>>), Str(<<"a">>), Str(<<"a", "-", "1">>),
      Str(<<"A">>), Str(<<"a", "_", "b">>), Str(<<"a", "\n">>) }

DescriptionValues ==
    { Undefined, Number, Str(<<>>), Str(Rep("d", MinDescriptionLength - 1)),
      Str(Rep("d", MinDescriptionLength)), Str(Rep("d", MinDescriptionLength + 1)) }

LicenseValues == { Undefined, Str(<<"M", "I", "T">>), Number, Null }

AllowedToolsValues ==
    { Undefined, Null, Array(<<>>), Array(<<Str(<<"r">>), Str(<<"w">>)>>),
      Array(<<Str(<<"r">>), Number>>), Str(<<"r">>) }

MetadataValues ==
    { Undefined, Null, Object(<<>>), Object(<<Str(<<"1">>)>>),
      Object(<<Str(<<"1">>), Number>>), Object(<<Object(<<>>)>>),
      Array(<<Str(<<"1">>)>>), Str(<<"1">>) }

\* A key the schema does not know.
ExtraValues == { Undefined, Str(<<"x">>), Number }

Headers ==
    [name : NameValues, description : DescriptionValues, license : LicenseValues,
     allowedTools : AllowedToolsValues, metadata : MetadataValues,
     extra : ExtraValues]

NoVerdict == [ok |-> FALSE, issues |-> {"pending"}, value |-> Undefined]

\* The schema is not under study.
SchemaIdle == data = <<>> /\ verdict = <<>>

SchemaInit ==
    /\ data \in Headers
    /\ verdict = NoVerdict

\* SkillFrontmatterSchema.parse(data)
Validate ==
    /\ verdict = NoVerdict
    /\ verdict' = SchemaParse(data)
    /\ UNCHANGED data

\* What the claim says of each field, from the value alone.
RefNameFails(v) ==
    v.kind # "string" \/ v.chars = <<>>
        \/ \E i \in 1..Len(v.chars) : v.chars[i] \notin NameChars
RefDescriptionFails(v) == v.kind # "string" \/ Len(v.chars) < 20
RefAllowedToolsFails(v) ==
    v.kind # "undefined"
        /\ (v.kind # "array" \/ \E i \in 1..Len(v.items) : v.items[i].kind # "string")
RefMetadataFails(v) ==
    v.kind # "undefined"
        /\ (v.kind # "object" \/ \E i \in 1..Len(v.items) : v.items[i].kind # "string")
RefLicenseFails(v) == v.kind \notin {"undefined", "string"}

\* C2 as claimed: validation fails if and only if name, description,
\* allowed-tools or metadata is wrong; nothing else in the header (the value
\* of license, an unknown key) makes it fail.
C2_FailsIffFourFields ==
    verdict # NoVerdict =>
        (~verdict.ok <=>
            \/ RefNameFails(data.name)
            \/ RefDescriptionFails(data.description)
            \/ RefAllowedToolsFails(data.allowedTools)
            \/ RefMetadataFails(data.metadata))

\* C2 amended: validation fails if and only if name, description,
\* allowed-tools or metadata is wrong or license is present and not a
\* string; an unknown key never makes it fail.
C2_FailsIffFiveFields ==
    verdict # NoVerdict =>
        (~verdict.ok <=>
            \/ RefNameFails(data.name)
            \/ RefDescriptionFails(data.description)
            \/ RefLicenseFails(data.license)
            \/ RefAllowedToolsFails(data.allowedTools)
            \/ RefMetadataFails(data.metadata))

\* C2 witness: a header whose only fault is a license that is not a string
\* was rejected, next to an unknown key.
C2_Witness ==
    /\ verdict # NoVerdict
    /\ ~verdict.ok
    /\ verdict.issues = {"license"}
    /\ data.license = Number
    /\ data.extra # Undefined
    /\ Len(data.description.chars) = 20

(***************************************************************************)
(* Specification SpecParse: parseSkill applied to drawn files and paths.   *)
(***************************************************************************)
\* The base path of the drawn files.
ParseBase == <<"/", "r">>

\* Where the drawn SKILL.md lies below the base path: in a directory, in a
\* directory with a hyphen, in a nested directory, and in the base path itself.
ParseChains ==
    { << <<"a">> >>, << <<"a", "-", "b">> >>, << <<"c">>, <<"a">> >>, <<>> }

ParseHeaders ==
    [name : { Undefined, Str(<<"a">>), Str(<<"a", "-", "b">>), Str(<<"r">>),
              Str(<<"A">>) },
     description : { Str(Rep("d", MinDescriptionLength - 1)),
                     Str(Rep("d", MinDescriptionLength)) },
     license : { Undefined, Str(<<"M", "I", "T">>), Number },
     allowedTools : { Undefined },
     metadata : { Undefined, Object(<<Str(<<"1">>)>>) },
     extra : { Undefined }]

\* Markdown after the frontmatter, with and without surrounding white space.
ParseBodies ==
    { <<>>, <<"\n", " ">>, <<"#">>, <<"\n", "#", " ", "x", " ", "\n">> }

ParseFiles ==
    [readable : BOOLEAN, wellFormed : BOOLEAN, data : ParseHeaders,
     content : ParseBodies]

\* parseSkill has not returned yet.
ParsePending == [pending |-> TRUE]

\* parseSkill is not under study.
ParseIdle == psIn = <<>> /\ psOut = <<>>

ParseInit ==
    /\ psIn \in [file : ParseFiles, chain : ParseChains]
    /\ psOut = ParsePending

\* One call parseSkill(skillPath, baseDir).
Parse ==
    /\ psOut = ParsePending
    /\ psOut' = parseSkill(psIn.file, SkillPathOf(ParseBase, psIn.chain), ParseBase)
    /\ UNCHANGED psIn

\* The name of the directory that holds the drawn SKILL.md.
RefDirName(chain) == IF chain = <<>> THEN <<"r">> ELSE chain[Len(chain)]

\* t is s without its leading and trailing white space.
IsTrimOf(t, s) ==
    \E i \in 1..(Len(s) + 1) : \E j \in 0..Len(s) :
        /\ t = SubSeq(s, i, j)
        /\ \A k \in 1..(i - 1) : s[k] \in WhiteSpace
        /\ \A k \in (j + 1)..Len(s) : s[k] \in WhiteSpace
        /\ t # <<>> => (t[1] \notin WhiteSpace /\ t[Len(t)] \notin WhiteSpace)

\* C3: parseSkill never throws; it returns a Skill exactly when the file
\* is readable, splits into header and body, passes the schema and names
\* its own directory, and null otherwise; a returned Skill has the header's
\* name, which is the basename of its fullPath, a description of at least
\* 20 characters, the parent of its path as fullPath, and the trimmed body.
C3_ParseSkillContract ==
    psOut # ParsePending =>
        LET f == psIn.file
            s == psOut.skill
        IN  /\ ~psOut.threw
            /\ s # NoSkill <=>
                   /\ f.readable
                   /\ f.wellFormed
                   /\ SchemaParse(f.data).ok
                   /\ f.data.name.chars = RefDirName(psIn.chain)
            /\ s # NoSkill =>
                   /\ s.name = f.data.name.chars
                   /\ s.name = basename(s.fullPath)
                   /\ Len(s.description) >= 20
                   /\ s.path = SkillPathOf(ParseBase, psIn.chain)
                   /\ join(s.fullPath, SKILL_MD) = s.path
                   /\ IsTrimOf(s.content, f.content)

\* C3 witness: a Skill was returned for a nested directory with its body
\* trimmed on both sides.
C3_Witness ==
    /\ psOut # ParsePending
    /\ psOut.skill # NoSkill
    /\ Len(psIn.chain) = 2
    /\ psOut.skill.content = <<"#", " ", "x">>
    /\ Len(psIn.file.content) > 3

(***************************************************************************)
(* Specification SpecRender: the rendering applied to drawn Skills and     *)
(* resource lists.                                                         *)
(***************************************************************************)
\* The characters a drawn body is made of.
BodyChars == {"x", "$", "&"}

RECURSIVE StringsUpTo(_, _)
\* The strings over alphabet of at most n characters.
StringsUpTo(alphabet, n) ==
    IF n = 0 THEN { <<>> }
    ELSE LET shorter == StringsUpTo(alphabet, n - 1)
         IN  shorter \cup { Append(t, c) : t \in shorter, c \in alphabet }

\* Bodies: every short string over BodyChars, the placeholders of the
\* templates, and the other dollar patterns.
RenderBodies ==
    StringsUpTo(BodyChars, MaxBodyLen)
        \cup { NamePlaceholder, ContentPlaceholder, PathsPlaceholder,
               <<"#", " ", "H", "i">>, <<"$", "'">>, <<"$", Grave>>,
               <<"$", "1">>, <<"x", "$">> }

RenderNames == { <<"a">>, <<"a", "-", "b">> }

\* The directory of the drawn Skill and the files a scan may yield below it.
RenderDir == <<"/", "d">>
RenderFiles ==
    { <<"/", "d", "/", "n">>, <<"/", "d", "/", "m", "/", "n">>,
      <<"/", "d", "/", "$", "$">> }

RECURSIVE ListsUpTo(_, _)
\* The lists of at most n elements of S.
ListsUpTo(S, n) ==
    IF n = 0 THEN { <<>> }
    ELSE LET shorter == ListsUpTo(S, n - 1)
         IN  shorter \cup { Append(l, x) : l \in shorter, x \in S }

\* No prompt yet (every prompt starts with the skill tag).
NoPrompt == <<>>

\* The rendering is not under study.
RenderIdle == rdIn = <<>> /\ rdOut = <<>>

RenderInit ==
    /\ rdIn \in [name : RenderNames, content : RenderBodies,
                  resourcePaths : ListsUpTo(RenderFiles, MaxPaths)]
    /\ rdOut = NoPrompt

\* The Skill record of the drawn name and body.
RenderedSkill ==
    [name |-> rdIn.name, fullPath |-> RenderDir, content |-> rdIn.content]

\* The string work of one execute call on the drawn Skill and resource list.
Render ==
    /\ rdOut = NoPrompt
    /\ rdOut' = AppendResources(RenderSkill(RenderedSkill), RenderedSkill,
                                rdIn.resourcePaths)
    /\ UNCHANGED rdIn

\* s.endsWith(pat)
EndsWith(s, pat) == MatchAt(s, pat, Len(s) - Len(pat) + 1)

\* The skill block the claim describes.
RefSkillBlock(name, body) ==
    <<"<", "s", "k", "i", "l", "l", " ", "n", "a", "m", "e", "=", "\"">>
        \o name \o <<"\"", ">", "\n", "\n">> \o body
        \o <<"\n", "\n", "<", "/", "s", "k", "i", "l", "l", ">">>

\* The opening tag of the resources block.
ResourcesTag ==
    <<"<", "s", "k", "i", "l", "l", "_", "r", "e", "s", "o", "u", "r", "c", "e",
      "s", ">">>

\* The resources block the claim describes: the note naming the bundle, then
\* one line for each path.
RefResourcesBlock(name, paths) ==
    ResourcesTag \o
        <<"\n", "I", "M", "P", "O", "R", "T", "A", "N", "T", ":", " ",
          "T", "h", "e", " ", "s", "k", "i", "l", "l", " ">>
        \o name \o
        <<" ", "m", "a", "y", " ", "r", "e", "f", "e", "r", "e", "n",
          "c", "e", " ", "c", "e", "r", "t", "a", "i", "n", " ", "r",
          "e", "s", "o", "u", "r", "c", "e", " ", "f", "i", "l", "e",
          "s", ".", " ", "U", "s", "e", " ", "t", "h", "e", "i", "r",
          " ", "f", "u", "l", "l", " ", "p", "a", "t", "h", "s", ":",
          "\n", "\n">>
        \o Concat([i \in 1..Len(paths) |-> paths[i] \o <<"\n">>])
        \o <<"<", "/">> \o Tail(ResourcesTag)

\* C6 as claimed: whatever the body, the prompt begins with the skill tag
\* holding the name, a blank line, the body unmodified, a blank line and the
\* closing tag.
C6_PromptBeginsWithBodyVerbatim ==
    rdOut # NoPrompt => StartsWith(rdOut, RefSkillBlock(rdIn.name, rdIn.content))

\* C7 as claimed: the prompt holds the resources block if and only if the
\* resource list is not empty, and the block then names the bundle and
\* lists every path unmodified, one per line, in the order of the list.
C7_ResourcesBlockListsPathsVerbatim ==
    rdOut # NoPrompt =>
        /\ Includes(rdOut, ResourcesTag) <=> rdIn.resourcePaths # <<>>
        /\ rdIn.resourcePaths # <<>> =>
               EndsWith(rdOut, <<"\n", "\n">> \o
                   RefResourcesBlock(rdIn.name, rdIn.resourcePaths))

(***************************************************************************)
(* Specification Spec: the plugin on a drawn file system - discovery,      *)
(* registration, then tool calls interleaved with file system changes.     *)
(***************************************************************************)
\* The SKILL.md files that may exist: a skill, a skill nested in its
\* directory, a skill whose directory name has a hyphen (its tool name is
\* that of the nested skill), a skill of the same name under the home
\* directory, and a skill under the configuration directory, where a third
\* skill of the name of the first may lie too.
SkillA == <<"/", "p", "/", "a", "/", "S", "K", "I", "L", "L", ".", "m", "d">>
SkillAB == <<"/", "p", "/", "a", "/", "b", "/", "S", "K", "I", "L", "L", ".", "m", "d">>
SkillAHyphenB == <<"/", "p", "/", "a", "-", "b", "/", "S", "K", "I", "L", "L", ".", "m", "d">>
HomeSkillA == <<"/", "h", "/", "a", "/", "S", "K", "I", "L", "L", ".", "m", "d">>
ConfigSkillB == <<"/", "c", "/", "b", "/", "S", "K", "I", "L", "L", ".", "m", "d">>
ConfigSkillA == <<"/", "c", "/", "a", "/", "S", "K", "I", "L", "L", ".", "m", "d">>

\* The other files that may exist in the directories of SkillA and SkillAB:
\* a file, a file in the nested directory, and a hidden file.
FileN == <<"/", "p", "/", "a", "/", "n">>
FileBN == <<"/", "p", "/", "a", "/", "b", "/", "n">>
FileDotH == <<"/", "p", "/", "a", "/", ".", "h">>

SkillPaths == {SkillA, SkillAB, SkillAHyphenB, HomeSkillA, ConfigSkillB, ConfigSkillA}
ResourcePaths == {FileN, FileBN, FileDotH}
Universe == SkillPaths \cup ResourcePaths

\* A header without any key.
NoHeader ==
    [name |-> Undefined, description |-> Undefined, license |-> Undefined,
     allowedTools |-> Undefined, metadata |-> Undefined, extra |-> Undefined]

\* A SKILL.md that declares the given name, with a description of c's.
SkillFile(name, c, n, body) ==
    [readable |-> TRUE, wellFormed |-> TRUE,
     data |-> [NoHeader EXCEPT !.name = Str(name), !.description = Str(Rep(c, n))],
     content |-> body]

\* A file that cannot be read, and one whose frontmatter cannot be split.
Unreadable ==
    [readable |-> FALSE, wellFormed |-> FALSE, data |-> NoHeader, content |-> <<>>]
Malformed ==
    [readable |-> TRUE, wellFormed |-> FALSE, data |-> NoHeader, content |-> <<>>]

\* A file that is no SKILL.md.
PlainFile ==
    [readable |-> TRUE, wellFormed |-> TRUE, data |-> NoHeader, content |-> <<"x">>]

\* What each SKILL.md may hold at startup.
StartFiles(p) ==
    CASE p = SkillA ->
            { SkillFile(<<"a">>, "d", MinDescriptionLength, <<" ", "A", "\n">>),
              SkillFile(<<"a">>, "d", MinDescriptionLength - 1, <<"A">>),
              Unreadable }
      [] p = SkillAB ->
            { NoFile, SkillFile(<<"b">>, "e", MinDescriptionLength, <<"B">>),
              SkillFile(<<"a">>, "e", MinDescriptionLength, <<"B">>) }
      [] p = SkillAHyphenB ->
            { NoFile,
              SkillFile(<<"a", "-", "b">>, "f", MinDescriptionLength + 1, <<"$", "$">>) }
      [] p = HomeSkillA ->
            { SkillFile(<<"a">>, "g", MinDescriptionLength, <<"H">>), Malformed }
      [] p = ConfigSkillB ->
            { SkillFile(<<"b">>, "k", MinDescriptionLength, <<>>) }
      [] p = ConfigSkillA ->
            { NoFile, SkillFile(<<"a">>, "m", MinDescriptionLength, <<"C">>) }
      [] OTHER -> { NoFile }

\* What SkillA is rewritten to after startup.
EditedSkillA == SkillFile(<<"a">>, "z", MinDescriptionLength, <<"Z">>)

\* The base path a path of the universe lies under.
BaseOf(p) == CHOOSE b \in {BasePaths[i] : i \in 1..Len(BasePaths)} : IsUnder(p, b)

\* The plugin is not under study.
PluginIdle ==
    /\ fs = <<>> /\ rootDirs = {} /\ fsChanges = 0 /\ pc = "off" /\ rootIdx = 0
    /\ scan = NoScan /\ scanLog = <<>> /\ skills = <<>> /\ warnings = <<>>
    /\ regIdx = 0 /\ tools = <<>> /\ calls = <<>>

\* The host calls SkillsPlugin: a file system with some of the base paths
\* and, under those, some of the files (a base path that does not exist
\* holds none); nothing discovered yet.
PluginInit ==
    /\ rootDirs \in SUBSET {BasePaths[i] : i \in 1..Len(BasePaths)}
    /\ \E fa \in StartFiles(SkillA), fab \in StartFiles(SkillAB),
          fhy \in StartFiles(SkillAHyphenB), fha \in StartFiles(HomeSkillA),
          fcb \in StartFiles(ConfigSkillB), fca \in StartFiles(ConfigSkillA),
          others \in SUBSET ResourcePaths :
           fs = [p \in Universe |->
                   IF BaseOf(p) \notin rootDirs THEN NoFile
                   ELSE CASE p = SkillA -> fa
                          [] p = SkillAB -> fab
                          [] p = SkillAHyphenB -> fhy
                          [] p = HomeSkillA -> fha
                          [] p = ConfigSkillB -> fcb
                          [] p = ConfigSkillA -> fca
                          [] OTHER -> IF p \in others THEN PlainFile ELSE NoFile]
    /\ fsChanges = 0
    /\ pc = "discover" /\ rootIdx = 1 /\ scan = NoScan /\ scanLog = <<>>
    /\ skills = <<>> /\ warnings = <<>> /\ regIdx = 1 /\ tools = <<>>
    /\ calls = [c \in CallIds |-> NoCall]

\* After startup a file is written: a resource file appears, or SkillA is
\* rewritten.
WriteFile ==
    /\ pc = "ready" /\ fsChanges < MaxFsChanges
    /\ \E p \in ResourcePaths \cup {SkillA} :
        LET f == IF p = SkillA THEN EditedSkillA ELSE PlainFile
        IN  /\ BaseOf(p) \in rootDirs
            /\ fs[p] # f
            /\ fs' = [fs EXCEPT ![p] = f]
    /\ fsChanges' = fsChanges + 1
    /\ UNCHANGED <<pureVars, rootDirs, pc, discoveryVars, regIdx, tools, calls>>

\* After startup a file is removed.
RemoveFile ==
    /\ pc = "ready" /\ fsChanges < MaxFsChanges
    /\ \E p \in ResourcePaths \cup {SkillA} :
        /\ fs[p] # NoFile
        /\ fs' = [fs EXCEPT ![p] = NoFile]
    /\ fsChanges' = fsChanges + 1
    /\ UNCHANGED <<pureVars, rootDirs, pc, discoveryVars, regIdx, tools, calls>>

(***************************************************************************)
(* Claims about the plugin                                                 *)
(***************************************************************************)
\* The elements of a list.
Range(list) == {list[i] : i \in 1..Len(list)}

\* What the claims call a metadata file that parses successfully: it can be
\* read, it splits into header and body, its header has no field at fault,
\* and it names the directory it lies in.
RefParses(file, path) ==
    /\ file # NoFile
    /\ file.readable /\ file.wellFormed
    /\ ~RefNameFails(file.data.name)
    /\ ~RefDescriptionFails(file.data.description)
    /\ ~RefLicenseFails(file.data.license)
    /\ ~RefAllowedToolsFails(file.data.allowedTools)
    /\ ~RefMetadataFails(file.data.metadata)
    /\ LET parts == Split(path, sep)
       IN  file.data.name.chars = parts[Len(parts) - 1]

\* The position in BasePaths of the base path a path lies under.
RootIndex(p) == CHOOSE i \in 1..Len(BasePaths) : IsUnder(p, BasePaths[i])

\* C4: while discovery runs and when it has returned, the Skills collected
\* are those of the matches that parse, one for each, in the order the
\* scans yielded them, a Skill of an earlier base path before every Skill
\* of a later one; none is dropped or merged for having the tool name of
\* another.
C4_SkillsInRootThenMatchOrder ==
    pc \in {"discover", "register"} =>
        LET parsed == SelectSeq(scanLog, LAMBDA m : RefParses(fs[m], m))
        IN  /\ Len(skills) = Len(parsed)
            /\ \A i \in 1..Len(skills) : skills[i].path = parsed[i]
            /\ \A i, j \in 1..Len(skills) :
                   i < j => RootIndex(skills[i].path) <= RootIndex(skills[j].path)

\* C4 witness: discovery returned four Skills, two with one tool name from
\* the same base path and two with one tool name from different base paths.
C4_Witness ==
    /\ pc = "register"
    /\ Len(skills) = 4
    /\ \E i, j \in 1..4 :
           /\ i < j /\ skills[i].toolName = skills[j].toolName
           /\ RootIndex(skills[i].path) = RootIndex(skills[j].path)
    /\ \E i, j \in 1..4 :
           /\ i < j /\ skills[i].toolName = skills[j].toolName
           /\ RootIndex(skills[i].path) < RootIndex(skills[j].path)

\* C5: discovery never fails, and when it has returned there is a Skill for
\* every SKILL.md that parses under every base path that exists, whatever
\* other files fail to parse and whatever base paths are missing.
C5_FailuresStayLocal ==
    /\ pc # "failed"
    /\ pc = "register" =>
           \A p \in SkillPaths :
               (BasePaths[RootIndex(p)] \in rootDirs /\ RefParses(fs[p], p)) =>
                   \E i \in 1..Len(skills) : skills[i].path = p

\* C5 witness: discovery returned with a Skill from the first base path,
\* where one file could not be read and another named a different directory,
\* and a Skill from the third base path, the second being missing.
C5_Witness ==
    /\ pc = "register"
    /\ fs[SkillA] = Unreadable
    /\ fs[SkillAB] # NoFile /\ ~RefParses(fs[SkillAB], SkillAB)
    /\ BasePaths[2] \notin rootDirs
    /\ {skills[i].path : i \in 1..Len(skills)} = {SkillAHyphenB, ConfigSkillB}

\* The step of call c in which its resource scan is made.
ScanStep(c) == calls[c].pc = "scan" /\ calls'[c].pc = "append"

\* The directory of the Skill that call c renders.
CallDir(c) == tools[calls[c].tool].skill.fullPath

\* The path of p below the directory dir.
Below(p, dir) == SubSeq(p, Len(dir) + 2, Len(p))

C10_SnapshotAtStartupFreshResources ==
    [][/\ pc = "ready" =>
             /\ pc' = "ready"
             /\ tools' = tools /\ skills' = skills
             /\ UNCHANGED <<rootIdx, scan, scanLog, regIdx>>
       /\ \A c \in CallIds :
             /\ (calls[c].pc = "idle" /\ calls'[c].pc = "scan") =>
                    calls'[c].prompt = RenderSkill(tools[calls'[c].tool].skill)
             /\ ScanStep(c) =>
                    /\ Len(calls'[c].resourcePaths)
                           = Cardinality(Range(calls'[c].resourcePaths))
                    /\ Range(calls'[c].resourcePaths) =
                           {p \in GlobScan(fs, CallDir(c), <<"*">>) :
                               basename(p) # SKILL_MD}]_vars

\* C10 witness: SKILL.md of skill a was rewritten after startup, and a call
\* of its tool has returned the body captured at startup with the
\* resources found at the call.
C10_Witness ==
    /\ pc = "ready"
    /\ fs[SkillA] = EditedSkillA
    /\ calls[1].pc = "done"
    /\ tools[calls[1].tool].skill.path = SkillA
    /\ tools[calls[1].tool].skill.content = <<"A">>
    /\ tools[calls[1].tool].description = Rep("d", MinDescriptionLength)
    /\ Includes(calls[1].prompt, <<"\n", "\n", "A", "\n", "\n">>)
    /\ Includes(calls[1].prompt, FileN)

\* The prompts a call of tool t may return when it is the only call, over
\* the files fsNow: one for each order the scan may yield its matches in.
AlonePrompts(t, fsNow) ==
    LET skill == tools[t].skill
    IN  { AppendResources(RenderSkill(skill), skill,
                          SelectSeq(o, LAMBDA q : basename(q) # SKILL_MD)) :
              o \in Orders(GlobScan(fsNow, skill.fullPath, <<"*">>)) }

\* C11: with several calls in flight, of one tool or of different tools, and
\* the files unchanged, every step of a call changes that call only (no
\* other call, no tool, no Skill, no file), and the prompt a call returns is
\* one that the call returns when it runs alone.
C11_CallsNeverInteract ==
    [][pc = "ready" =>
          /\ tools' = tools /\ skills' = skills /\ fs' = fs
          /\ \A c, d \in CallIds :
                 (c # d /\ calls'[c] # calls[c]) => calls'[d] = calls[d]
          /\ \A c \in CallIds :
                 (calls[c].pc = "append" /\ calls'[c].pc = "done") =>
                     calls'[c].prompt \in AlonePrompts(calls'[c].tool, fs)]_vars

\* C11 witness: two calls are in flight together; the call of the tool of
\* skill a has returned its prompt, with two resources, and the call of
\* another tool has made its scan and found no resource.
C11_Witness ==
    /\ pc = "ready"
    /\ calls[1].pc = "done" /\ calls[2].pc = "append"
    /\ tools[calls[1].tool].skill.path = SkillA
    /\ tools[calls[2].tool].skill.path = ConfigSkillB
    /\ Range(calls[1].resourcePaths) = {FileN, FileBN}
    /\ calls[2].resourcePaths = <<>>

\* The tool names that more than one of the Skills of a list has.
RepeatedToolNames(list) ==
    {n \in {list[i].toolName : i \in 1..Len(list)} :
        Cardinality({i \in 1..Len(list) : list[i].toolName = n}) > 1}

\* C12: discovery logs at most one duplicate warning in a run; when it has
\* returned, it has logged one if and only if some tool name occurs more
\* than once among the Skills, and the warning lists exactly the tool names
\* that occur more than once, each of them once however often it occurs.
C12_OneWarningEachNameOnce ==
    /\ Len(warnings) <= 1
    /\ pc = "discover" => warnings = <<>>
    /\ pc \in {"register", "ready"} =>
           /\ Len(warnings) = 1 <=> RepeatedToolNames(skills) # {}
           /\ Len(warnings) = 1 =>
                  /\ Range(warnings[1]) = RepeatedToolNames(skills)
                  /\ Len(warnings[1]) = Cardinality(RepeatedToolNames(skills))

\* The position of the last of the first k Skills that has the tool name n.
LatestIndex(n, k) ==
    CHOOSE i \in 1..k :
        /\ skills[i].toolName = n
        /\ \A j \in (i + 1)..k : skills[j].toolName # n

\* C13: registration takes the Skills in the order of discovery, one at
\* each turn; after k turns there is exactly one tool for each tool name
\* among the first k Skills, bound to the last of them that has the name;
\* so when the plugin has returned, there is one tool for each tool name
\* found, it has the description of the last Skill of that name, and a call
\* of it begins with the rendering of that Skill's name and body and lists
\* files of that Skill's directory only; no tool is bound to an earlier
\* Skill of the name.
C13_OneToolPerNameLastWins ==
    pc \in {"register", "ready"} =>
        LET k == regIdx - 1
        IN  /\ k \in 0..Len(skills)
            /\ pc = "ready" => k = Len(skills)
            /\ DOMAIN tools = {skills[i].toolName : i \in 1..k}
            /\ \A n \in DOMAIN tools :
                   /\ tools[n].skill = skills[LatestIndex(n, k)]
                   /\ tools[n].description = skills[LatestIndex(n, k)].description
            /\ \A c \in DOMAIN calls :
                   calls[c].pc # "idle" =>
                       LET bound == skills[LatestIndex(calls[c].tool, k)]
                       IN  /\ calls[c].tool \in DOMAIN tools
                           /\ calls[c].pc = "scan" =>
                                  calls[c].prompt = RenderSkill(bound)
                           /\ \A i \in 1..Len(calls[c].resourcePaths) :
                                  IsUnder(calls[c].resourcePaths[i], bound.fullPath)

\* C13 witness: three Skills of one tool name and a fourth Skill were
\* discovered; the two tools are registered, and a call of the shared name
\* has returned the body of the Skill of the last base path.
C13_Witness ==
    /\ pc = "ready"
    /\ Len(skills) = 4
    /\ Cardinality(DOMAIN tools) = 2
    /\ \E i, j \in 1..4 :
           /\ i < j /\ j < 4
           /\ skills[i].toolName = skills[4].toolName
           /\ skills[j].toolName = skills[4].toolName
    /\ skills[4].path = ConfigSkillA
    /\ calls[1].pc = "done"
    /\ calls[1].tool = skills[4].toolName
    /\ tools[calls[1].tool].description = Rep("m", MinDescriptionLength)
    /\ Includes(calls[1].prompt, <<"\n", "\n", "C", "\n", "\n">>)

(***************************************************************************)
(* The specifications.                                                     *)
(***************************************************************************)
\* generateToolName on every drawn base path and pair of directory chains.
InitName == NameInit /\ SchemaIdle /\ ParseIdle /\ RenderIdle /\ PluginIdle
NextName ==
    (\E i \in 1..2 : Generate(i))
        /\ UNCHANGED <<schemaVars, parseVars, renderVars, pluginVars>>
SpecName == InitName /\ [][NextName]_vars

\* The schema on every drawn header.
InitSchema == SchemaInit /\ NameIdle /\ ParseIdle /\ RenderIdle /\ PluginIdle
NextSchema == Validate /\ UNCHANGED <<gtnVars, parseVars, renderVars, pluginVars>>
SpecSchema == InitSchema /\ [][NextSchema]_vars

\* parseSkill on every drawn file and path.
InitParse == ParseInit /\ NameIdle /\ SchemaIdle /\ RenderIdle /\ PluginIdle
NextParse == Parse /\ UNCHANGED <<gtnVars, schemaVars, renderVars, pluginVars>>
SpecParse == InitParse /\ [][NextParse]_vars

\* The rendering on every drawn Skill and resource list.
InitRender == RenderInit /\ NameIdle /\ SchemaIdle /\ ParseIdle /\ PluginIdle
NextRender == Render /\ UNCHANGED <<gtnVars, schemaVars, parseVars, pluginVars>>
SpecRender == InitRender /\ [][NextRender]_vars

\* The plugin: discovery and registration at startup, then tool calls, one
\* at a time, interleaved with changes of the file system.
Init == PluginInit /\ NameIdle /\ SchemaIdle /\ ParseIdle /\ RenderIdle
Next ==
    \/ ScanFails
    \/ ScanOpen
    \/ ScanMatch
    \/ ScanEnd
    \/ DetectDuplicates
    \/ Register
    \/ Registered
    \/ \E t \in DOMAIN tools : CallStart(1, t)
    \/ CallScan(1)
    \/ CallReturn(1)
    \/ CallEnd(1)
    \/ WriteFile
    \/ RemoveFile
Spec == Init /\ [][Next]_vars

\* The plugin with two tool calls in flight, their steps interleaved in every
\* way, over files that do not change after startup: the first and the last
\* base path exist, skill a is valid and the only one of its name, and the
\* other files are as drawn.
InitConcurrent ==
    /\ PluginInit /\ NameIdle /\ SchemaIdle /\ ParseIdle /\ RenderIdle
    /\ {BasePaths[1], BasePaths[3]} \subseteq rootDirs
    /\ RefParses(fs[SkillA], SkillA)
    /\ fs[SkillAHyphenB] = NoFile
    /\ fs[HomeSkillA] \in {NoFile, Malformed}
    /\ fs[ConfigSkillA] = NoFile
NextConcurrent ==
    \/ ScanFails
    \/ ScanOpen
    \/ ScanMatch
    \/ ScanEnd
    \/ DetectDuplicates
    \/ Register
    \/ Registered
    \/ \E c \in CallIds :
           \/ \E t \in DOMAIN tools : CallStart(c, t)
           \/ CallScan(c)
           \/ CallReturn(c)
           \/ CallEnd(c)
SpecConcurrent == InitConcurrent /\ [][NextConcurrent]_vars

====
